---- MODULE Spec2Model ----
(***************************************************************************)
(* The task lifecycle of the wasmtime task driver: the plugin's RPC        *)
(* handlers (src/wasmtime/driver.go), the goroutines they spawn, and the   *)
(* task handle and task store they call.  Every RPC is a caller thread     *)
(* that walks through its handler one lock acquisition at a time, so that  *)
(* handlers interleave with each other and with the tasks' goroutines the  *)
(* way the Go scheduler lets them.                                         *)
(*                                                                         *)
(* taskHandle (run, stop, IsRunning, TaskStatus) and taskStore (Get, Set,  *)
(* Delete) are used by driver.go but their files are not part of the       *)
(* sources at hand; they are modelled from sections 4.4 and 4.5 of the     *)
(* specification and marked so where they are defined.                     *)
(***************************************************************************)
EXTENDS Integers, FiniteSets, Sequences

\* ------------------------------------------------------------- bounds
NumIds == 1
NumCallers == 2
MaxCalls == 3
MaxWaiters == 2
MaxStreams == 1
MaxSize == 2
MaxTTL == 1
MaxFiles == 2

TaskIds == 1..NumIds
\* the ids of the specifications in which tasks run side by side: one more
PairIds == 1..(NumIds + 1)
Callers == 1..NumCallers
Handles == 1..MaxCalls
Waiters == 1..MaxWaiters
Streams == 1..MaxStreams

\* the "no such task" answer of a lookup (ok = false)
NoHandle == 0

\* store.SetEpochDeadline(1): the call traps once the engine's epoch has
\* advanced this many ticks beyond the epoch at which the store was made (0)
\* (a deadline of two ticks, which one stop request does not reach)
SetEpochDeadlineM == 1 + 1
SetEpochDeadline == 1

\* the epoch is counted up to the deadline; further ticks make no difference
\* to a call that traps at the deadline
MaxEpoch == SetEpochDeadline

\* what the entry function of a task's module does when called: it comes to
\* an end (it returns or it faults), or it loops forever
Kinds == {"halts", "loops"}

VARIABLES
    tasks,      \* d.tasks: task id -> handle (NoHandle: not registered)
    handle,     \* the taskHandle objects made so far
    runpc,      \* position of each handle's run goroutine
    calls,      \* the RPC each caller thread is executing
    ret,        \* the RPC that returned last, and what it returned
    ncalls,     \* the number of RPCs received so far
    waiters,    \* the handleWait goroutines and the callers of WaitTask
    streams,    \* the handleTaskStats goroutines and the callers of TaskStats
    plugin      \* d.config, d.modulesCache and the SetConfig call in progress

vars == <<tasks, handle, runpc, calls, ret, ncalls, waiters, streams, plugin>>

Min(a, b) == IF a < b THEN a ELSE b

\* ------------------------------------------------------- task handle
\* a handle that no StartTask has made yet
NoTask == [id |-> 0, procState |-> "none", exitResult |-> "nil",
           completionCh |-> "open", signals |-> 0, epoch |-> 0,
           kind |-> "halts"]

\* h := &taskHandle{... procState: drivers.TaskStateRunning ...
\*                  store: store, completionCh: make(chan struct{})}
NewTaskHandle(id, kind) ==
    [id |-> id, procState |-> "running", exitResult |-> "nil",
     completionCh |-> "open", signals |-> 0, epoch |-> 0, kind |-> kind]

\* taskHandle.IsRunning
IsRunning(hr) == hr.procState = "running"

\* taskHandle.TaskStatus: a snapshot of the state
TaskStatus(hr) == hr.procState

\* the terminal transition of a task: records the exit result and fires the
\* one-shot completion signal; a task that is already Exited is left alone
Exited(hr, cause) ==
    IF hr.procState = "exited" THEN hr
    ELSE [hr EXCEPT !.procState = "exited", !.exitResult = cause,
                    !.completionCh = "closed",
                    !.signals = Min(hr.signals + 1, 2)]

\* taskHandle.stop: asks the engine to interrupt the call (one epoch tick);
\* a no-op on a task that is already Exited
\* (a stop that makes the terminal transition itself, whatever the state)
stopM(hr) ==
    [hr EXCEPT !.procState = "exited", !.exitResult = "Stopped",
               !.completionCh = "closed",
               !.signals = Min(hr.signals + 1, 2),
               !.epoch = Min(hr.epoch + 1, MaxEpoch)]
stop(hr) ==
    IF hr.procState = "exited" THEN hr
    ELSE [hr EXCEPT !.epoch = Min(hr.epoch + 1, MaxEpoch)]

\* the engine's epoch has reached the store's deadline: the call in flight
\* traps at its next checkpoint
Interrupted(hr) == hr.epoch >= SetEpochDeadline

\* ------------------------------------------------------- task store
\* taskStore.Get
Get(id) == tasks[id]

\* taskStore.Set
Set(id, h) == [tasks EXCEPT ![id] = h]

\* taskStore.Delete
Delete(id) == [tasks EXCEPT ![id] = NoHandle]

\* ------------------------------------------------------------ callers
IdleCall == [op |-> "none", id |-> 0, force |-> FALSE, pc |-> "idle",
             h |-> NoHandle, stopped |-> FALSE]

\* a caller thread can take a new RPC
Free(c) == calls[c].pc = "idle" /\ ncalls < MaxCalls

\* an RPC that takes further steps: where it stands after its lookup
Pending(op, id, force, pc, h) ==
    [IdleCall EXCEPT !.op = op, !.id = id, !.force = force, !.pc = pc, !.h = h]

\* what an RPC returns to its caller
Returned(op, res) == [op |-> op, res |-> res]

\* the handle the next StartTask will make
FreshHandles == {h \in Handles : handle[h].procState = "none"}
NextHandle == CHOOSE h \in FreshHandles : \A g \in FreshHandles : h <= g


FreeWaiter == {w \in Waiters : waiters[w].pc = "free"}
FreeStream == {s \in Streams : streams[s].pc = "free"}

NoWaiter == [h |-> NoHandle, pc |-> "free", ctxDone |-> FALSE,
             receiving |-> FALSE, got |-> 0, val |-> "nil"]
\* h: the task the stream was asked for (handleTaskStats is not given it)
NoStream == [h |-> NoHandle, pc |-> "free", ctxDone |-> FALSE,
             receiving |-> FALSE, got |-> 0]

\* ------------------------------------------------- plugin configuration
\* case gcache.TYPE_LFU, TYPE_ARC, TYPE_LRU, TYPE_SIMPLE
CacheTypes == {"lfu", "arc", "lru", "simple"}

\* the cache types a configuration may name: the four, none, and another
TypeInputs == CacheTypes \cup {"", "fifo"}

\* what is found under modulesDir: a module that loads and serializes, one
\* that NewModuleFromFile rejects, one that Serialize rejects, and a file
\* or directory that is not a regular *.wasm file
FileKinds == {"good", "badload", "badser", "other"}

Listings == UNION {[1..n -> FileKinds] : n \in 0..MaxFiles}

\* modulesDir: a root that Lstat fails on (the empty path, a path that does
\* not exist), a directory that cannot be read, or a directory and its files
\* in the order the walk visits them
Dirs ==
    {[root |-> r, files |-> <<>>] : r \in {"missing", "unreadable"}}
        \cup {[root |-> "ok", files |-> f] : f \in Listings}

\* Config{Cache: CacheConfig{...}}
Configs ==
    [enabled : BOOLEAN, size : -1..MaxSize, type : TypeInputs,
     expEnabled : BOOLEAN, entryTTL : -1..MaxTTL,
     preEnabled : BOOLEAN, dir : Dirs]

\* var config Config: what SetConfig works with when the payload is empty
ZeroConfig ==
    [enabled |-> FALSE, size |-> 0, type |-> "", expEnabled |-> FALSE,
     entryTTL |-> 0, preEnabled |-> FALSE,
     dir |-> [root |-> "missing", files |-> <<>>]]

\* cfg.PluginConfig: empty, not decodable, or the encoding of a Config
Payloads == {"empty", "bad", "ok"}

\* the error SetConfig returns: its kind and the values its text names
NoError == [kind |-> "nil", size |-> 0, count |-> 0, ttl |-> 0, module |-> 0]
Err(kind) == [NoError EXCEPT !.kind = kind]

\* NewPlugin: config: &Config{}, no cache yet
NewPlugin ==
    [pc |-> "new", config |-> ZeroConfig, built |-> FALSE, cache |-> {},
     scanned |-> FALSE, paths |-> <<>>, next |-> 1, loaded |-> {},
     err |-> NoError]

\* filepath.Walk on a root that Lstat fails on calls the function with
\* info = nil; the function calls info.IsDir() before it looks at err
WalkPanics(dir) == dir.root = "missing"

\* the walk: modulesPath collects the regular files named *.wasm; the
\* function returns nil also when the walk hands it an error (a directory
\* that cannot be read), so the walk itself never reports one
ModulesPath(dir) ==
    IF dir.root = "ok"
    THEN SelectSeq([i \in 1..Len(dir.files) |-> i],
                   LAMBDA i : dir.files[i] # "other")
    ELSE <<>>

\* if len(modulesPath) > cacheConf.Size
\* (a comparison that is off by one)
TooManyM(paths, size) == Len(paths) > size + 1
TooMany(paths, size) == Len(paths) > size

\* configureCache up to the loop over modulesPath; p is the plugin with
\* d.config set
configureCache(p) ==
    LET config == p.config
        paths == ModulesPath(config.dir)
        b == [p EXCEPT !.built = TRUE]
    IN  IF config.type \notin CacheTypes
        THEN [p EXCEPT !.pc = "returned", !.err = Err("ErrCacheType")]
        ELSE IF ~config.preEnabled
        THEN [b EXCEPT !.pc = "returned"]
        ELSE IF WalkPanics(config.dir)
        THEN [b EXCEPT !.pc = "panicked"]
        ELSE IF TooMany(paths, config.size)
        THEN [b EXCEPT !.pc = "returned", !.scanned = TRUE, !.paths = paths,
                       !.err = [Err("ErrPreCacheCount") EXCEPT
                                  !.size = config.size, !.count = Len(paths)]]
        ELSE [b EXCEPT !.pc = "load", !.scanned = TRUE, !.paths = paths]

\* SetConfig: decode, d.config = &config, validation, configureCache
SetConfig(payload, cfg) ==
    /\ plugin.pc = "new"
    /\ LET config == IF payload = "empty" THEN ZeroConfig ELSE cfg
           p == [plugin EXCEPT !.config = config]
       IN  plugin' =
             IF payload = "bad"
             THEN [plugin EXCEPT !.pc = "returned", !.err = Err("ErrDecode")]
             ELSE IF config.size <= 0
             THEN [p EXCEPT !.pc = "returned",
                            !.err = [Err("ErrSize") EXCEPT !.size = config.size]]
             ELSE IF config.expEnabled /\ config.entryTTL <= 0
             THEN [p EXCEPT !.pc = "returned",
                            !.err = [Err("ErrTTL") EXCEPT !.ttl = config.entryTTL]]
             ELSE IF config.enabled
             THEN configureCache(p)
             ELSE [p EXCEPT !.pc = "returned"]
    /\ UNCHANGED <<tasks, handle, runpc, calls, ret, ncalls, waiters, streams>>

\* (a loop that goes on to the next module when one fails)
PreCacheLoadM ==
    /\ plugin.pc = "load" /\ plugin.next <= Len(plugin.paths)
    /\ LET m == plugin.paths[plugin.next]
           kind == plugin.config.dir.files[m]
           l == [plugin EXCEPT !.loaded = @ \cup {m}, !.next = @ + 1]
       IN  plugin' = IF kind = "good" THEN [l EXCEPT !.cache = @ \cup {m}]
                     ELSE l
    /\ UNCHANGED <<tasks, handle, runpc, calls, ret, ncalls, waiters, streams>>
\* configureCache, one turn of the loop: NewModuleFromFile, Serialize,
\* d.modulesCache.Set(modulePath, serModule); the modules are at most as
\* many as the cache has room for
PreCacheLoad ==
    /\ plugin.pc = "load" /\ plugin.next <= Len(plugin.paths)
    /\ LET m == plugin.paths[plugin.next]
           kind == plugin.config.dir.files[m]
           l == [plugin EXCEPT !.loaded = @ \cup {m}]
       IN  plugin' =
             IF kind = "badload"
             THEN [l EXCEPT !.pc = "returned",
                            !.err = [Err("ErrLoad") EXCEPT !.module = m]]
             ELSE IF kind = "badser"
             THEN [l EXCEPT !.pc = "returned",
                            !.err = [Err("ErrSerialize") EXCEPT !.module = m]]
             ELSE [l EXCEPT !.cache = @ \cup {m}, !.next = @ + 1]
    /\ UNCHANGED <<tasks, handle, runpc, calls, ret, ncalls, waiters, streams>>

\* configureCache, after the loop: return nil
PreCacheReturn ==
    /\ plugin.pc = "load" /\ plugin.next > Len(plugin.paths)
    /\ plugin' = [plugin EXCEPT !.pc = "returned"]
    /\ UNCHANGED <<tasks, handle, runpc, calls, ret, ncalls, waiters, streams>>

Init ==
    /\ tasks = [i \in PairIds |-> NoHandle]
    /\ handle = [h \in Handles |-> NoTask]
    /\ runpc = [h \in Handles |-> "none"]
    /\ calls = [c \in Callers |-> IdleCall]
    /\ ret = Returned("none", "none")
    /\ ncalls = 0
    /\ waiters = [w \in Waiters |-> NoWaiter]
    /\ streams = [s \in Streams |-> NoStream]
    /\ plugin = NewPlugin

\* ---------------------------------------------------------- StartTask
\* the duplicate check and the decoding of the task's configuration; the
\* handle is built here but nobody else can see it before Set
\* (a StartTask that does not look the id up first)
StartCheckM(c, id, decodeOk) ==
    /\ Free(c)
    /\ ncalls' = ncalls + 1
    /\ IF ~decodeOk
       THEN /\ ret' = Returned("StartTask", "ErrDecode")
            /\ UNCHANGED calls
       ELSE /\ calls' = [calls EXCEPT ![c] =
                           Pending("StartTask", id, FALSE, "set", NoHandle)]
            /\ UNCHANGED ret
    /\ UNCHANGED <<tasks, handle, runpc, waiters, streams, plugin>>
StartCheck(c, id, decodeOk) ==
    /\ Free(c)
    /\ ncalls' = ncalls + 1
    /\ IF Get(id) # NoHandle
       THEN /\ ret' = Returned("StartTask", "ErrAlreadyStarted")
            /\ UNCHANGED calls
       ELSE IF ~decodeOk
       THEN /\ ret' = Returned("StartTask", "ErrDecode")
            /\ UNCHANGED calls
       ELSE /\ calls' = [calls EXCEPT ![c] =
                           Pending("StartTask", id, FALSE, "set", NoHandle)]
            /\ UNCHANGED ret
    /\ UNCHANGED <<tasks, handle, runpc, waiters, streams, plugin>>

\* d.tasks.Set(cfg.ID, h)
StartSet(c) ==
    /\ calls[c].op = "StartTask" /\ calls[c].pc = "set"
    /\ \E kind \in Kinds :
         handle' = [handle EXCEPT ![NextHandle] = NewTaskHandle(calls[c].id, kind)]
    /\ tasks' = Set(calls[c].id, NextHandle)
    /\ calls' = [calls EXCEPT ![c].pc = "go", ![c].h = NextHandle]
    /\ UNCHANGED <<runpc, ret, waiters, streams, ncalls, plugin>>

\* go h.run(); return handle, nil, nil
StartGo(c) ==
    /\ calls[c].op = "StartTask" /\ calls[c].pc = "go"
    /\ runpc' = [runpc EXCEPT ![calls[c].h] = "spawned"]
    /\ calls' = [calls EXCEPT ![c] = IdleCall]
    /\ ret' = Returned("StartTask", "ok")
    /\ UNCHANGED <<tasks, handle, waiters, streams, ncalls, plugin>>

\* ------------------------------------------------------ taskHandle.run
\* the goroutine begins the engine call
RunBegin(h) ==
    /\ runpc[h] = "spawned"
    /\ runpc' = [runpc EXCEPT ![h] = "calling"]
    /\ handle' = [handle EXCEPT ![h].procState =
                    IF @ = "exited" THEN @ ELSE "running"]
    /\ UNCHANGED <<tasks, calls, ret, waiters, streams, ncalls, plugin>>

\* the entry function returns
RunReturn(h) ==
    /\ runpc[h] = "calling" /\ handle[h].kind = "halts"
    /\ runpc' = [runpc EXCEPT ![h] = "done"]
    /\ handle' = [handle EXCEPT ![h] = Exited(@, "Completed")]
    /\ UNCHANGED <<tasks, calls, ret, waiters, streams, ncalls, plugin>>

\* the module, the buffer staging or the entry function fails
RunFault(h) ==
    /\ runpc[h] = "calling" /\ handle[h].kind = "halts"
    /\ runpc' = [runpc EXCEPT ![h] = "done"]
    /\ handle' = [handle EXCEPT ![h] = Exited(@, "Faulted")]
    /\ UNCHANGED <<tasks, calls, ret, waiters, streams, ncalls, plugin>>

\* the call reaches a checkpoint with the epoch deadline passed and traps
RunInterrupt(h) ==
    /\ runpc[h] = "calling" /\ Interrupted(handle[h])
    /\ runpc' = [runpc EXCEPT ![h] = "done"]
    /\ handle' = [handle EXCEPT ![h] = Exited(@, "Stopped")]
    /\ UNCHANGED <<tasks, calls, ret, waiters, streams, ncalls, plugin>>

\* ----------------------------------------------------------- StopTask
StopGet(c, id) ==
    /\ Free(c)
    /\ ncalls' = ncalls + 1
    /\ IF Get(id) = NoHandle
       THEN /\ ret' = Returned("StopTask", "ErrTaskNotFound")
            /\ UNCHANGED calls
       ELSE /\ calls' = [calls EXCEPT ![c] =
                           Pending("StopTask", id, FALSE, "stop", Get(id))]
            /\ UNCHANGED ret
    /\ UNCHANGED <<tasks, handle, runpc, waiters, streams, plugin>>

\* handle.stop(); return nil
\* (a StopTask whose tasks all run on one engine: the epoch tick reaches the
\* store of every task)
StopStopShared(c) ==
    /\ calls[c].op = "StopTask" /\ calls[c].pc = "stop"
    /\ handle' = [g \in Handles |->
                    IF handle[g].procState = "none" THEN handle[g]
                    ELSE stop(handle[g])]
    /\ calls' = [calls EXCEPT ![c] = IdleCall]
    /\ ret' = Returned("StopTask", "ok")
    /\ UNCHANGED <<tasks, runpc, waiters, streams, ncalls, plugin>>
\* (a StopTask that also drops the task from the store)
StopStopM(c) ==
    /\ calls[c].op = "StopTask" /\ calls[c].pc = "stop"
    /\ handle' = [handle EXCEPT ![calls[c].h] = stop(@)]
    /\ tasks' = Delete(calls[c].id)
    /\ calls' = [calls EXCEPT ![c] = IdleCall]
    /\ ret' = Returned("StopTask", "ok")
    /\ UNCHANGED <<runpc, waiters, streams, ncalls, plugin>>
StopStop(c) ==
    /\ calls[c].op = "StopTask" /\ calls[c].pc = "stop"
    /\ handle' = [handle EXCEPT ![calls[c].h] = stop(@)]
    /\ calls' = [calls EXCEPT ![c] = IdleCall]
    /\ ret' = Returned("StopTask", "ok")
    /\ UNCHANGED <<tasks, runpc, waiters, streams, ncalls, plugin>>

\* -------------------------------------------------------- DestroyTask
\* (a DestroyTask that takes an unknown id for a task already destroyed)
DestroyGetM(c, id, force) ==
    /\ Free(c)
    /\ ncalls' = ncalls + 1
    /\ IF Get(id) = NoHandle
       THEN /\ ret' = Returned("DestroyTask", "ok")
            /\ UNCHANGED calls
       ELSE /\ calls' = [calls EXCEPT ![c] =
                           Pending("DestroyTask", id, force, "check1", Get(id))]
            /\ UNCHANGED ret
    /\ UNCHANGED <<tasks, handle, runpc, waiters, streams, plugin>>
DestroyGet(c, id, force) ==
    /\ Free(c)
    /\ ncalls' = ncalls + 1
    /\ IF Get(id) = NoHandle
       THEN /\ ret' = Returned("DestroyTask", "ErrTaskNotFound")
            /\ UNCHANGED calls
       ELSE /\ calls' = [calls EXCEPT ![c] =
                           Pending("DestroyTask", id, force, "check1", Get(id))]
            /\ UNCHANGED ret
    /\ UNCHANGED <<tasks, handle, runpc, waiters, streams, plugin>>

\* if handle.IsRunning() && !force { return error }
\* (a DestroyTask that does not ask whether the task is running)
DestroyCheck1M(c) ==
    /\ calls[c].op = "DestroyTask" /\ calls[c].pc = "check1"
    /\ calls' = [calls EXCEPT ![c].pc = "check2"]
    /\ UNCHANGED <<tasks, handle, runpc, ret, waiters, streams, ncalls, plugin>>
DestroyCheck1(c) ==
    /\ calls[c].op = "DestroyTask" /\ calls[c].pc = "check1"
    /\ IF IsRunning(handle[calls[c].h]) /\ ~calls[c].force
       THEN /\ calls' = [calls EXCEPT ![c] = IdleCall]
            /\ ret' = Returned("DestroyTask", "ErrRunning")
       ELSE /\ calls' = [calls EXCEPT ![c].pc = "check2"]
            /\ UNCHANGED ret
    /\ UNCHANGED <<tasks, handle, runpc, waiters, streams, ncalls, plugin>>

\* if handle.IsRunning() && force {
DestroyCheck2(c) ==
    /\ calls[c].op = "DestroyTask" /\ calls[c].pc = "check2"
    /\ calls' = [calls EXCEPT ![c].pc =
                   IF IsRunning(handle[calls[c].h]) /\ calls[c].force
                   THEN "stop" ELSE "delete"]
    /\ UNCHANGED <<tasks, handle, runpc, ret, waiters, streams, ncalls, plugin>>

\*     handle.stop() }
\* (a forced destroy that marks the task Exited itself instead of leaving the
\* terminal transition to the task's goroutine)
DestroyStopM(c) ==
    /\ calls[c].op = "DestroyTask" /\ calls[c].pc = "stop"
    /\ handle' = [handle EXCEPT ![calls[c].h] =
                    [stop(@) EXCEPT !.procState = "exited",
                                    !.exitResult = "Stopped",
                                    !.completionCh = "closed",
                                    !.signals = Min(@ + 1, 2)]]
    /\ calls' = [calls EXCEPT ![c].pc = "delete", ![c].stopped = TRUE]
    /\ UNCHANGED <<tasks, runpc, ret, waiters, streams, ncalls, plugin>>
DestroyStop(c) ==
    /\ calls[c].op = "DestroyTask" /\ calls[c].pc = "stop"
    /\ handle' = [handle EXCEPT ![calls[c].h] = stop(@)]
    /\ calls' = [calls EXCEPT ![c].pc = "delete", ![c].stopped = TRUE]
    /\ UNCHANGED <<tasks, runpc, ret, waiters, streams, ncalls, plugin>>

\* d.tasks.Delete(taskID); return nil
DestroyDelete(c) ==
    /\ calls[c].op = "DestroyTask" /\ calls[c].pc = "delete"
    /\ tasks' = Delete(calls[c].id)
    /\ calls' = [calls EXCEPT ![c] = IdleCall]
    /\ ret' = Returned("DestroyTask", "ok")
    /\ UNCHANGED <<handle, runpc, waiters, streams, ncalls, plugin>>

\* -------------------------------------------------------- InspectTask
InspectGet(c, id) ==
    /\ Free(c)
    /\ ncalls' = ncalls + 1
    /\ IF Get(id) = NoHandle
       THEN /\ ret' = Returned("InspectTask", "ErrTaskNotFound")
            /\ UNCHANGED calls
       ELSE /\ calls' = [calls EXCEPT ![c] =
                           Pending("InspectTask", id, FALSE, "status", Get(id))]
            /\ UNCHANGED ret
    /\ UNCHANGED <<tasks, handle, runpc, waiters, streams, plugin>>

\* return handle.TaskStatus(), nil
InspectStatus(c) ==
    /\ calls[c].op = "InspectTask" /\ calls[c].pc = "status"
    /\ calls' = [calls EXCEPT ![c] = IdleCall]
    /\ ret' = Returned("InspectTask", TaskStatus(handle[calls[c].h]))
    /\ UNCHANGED <<tasks, handle, runpc, waiters, streams, ncalls, plugin>>

\* --------------------------------------------------------- SignalTask
SignalTask(c, id) ==
    /\ Free(c)
    /\ ncalls' = ncalls + 1
    /\ ret' = Returned("SignalTask", IF Get(id) = NoHandle THEN "ErrTaskNotFound"
                       ELSE "ErrNotSupported")
    /\ UNCHANGED <<tasks, handle, runpc, calls, waiters, streams, plugin>>

\* ----------------------------------------------------------- WaitTask
\* lookup; ch := make(chan *drivers.ExitResult); go d.handleWait(ctx, handle, ch)
WaitTask(c, id) ==
    /\ Free(c)
    /\ ncalls' = ncalls + 1
    /\ Get(id) # NoHandle => FreeWaiter # {}
    /\ ret' = Returned("WaitTask", IF Get(id) = NoHandle THEN "ErrTaskNotFound" ELSE "ok")
    /\ waiters' = IF Get(id) = NoHandle THEN waiters
                  ELSE LET w == CHOOSE x \in FreeWaiter : \A y \in FreeWaiter : x <= y
                       IN [waiters EXCEPT ![w] =
                             [NoWaiter EXCEPT !.h = Get(id), !.pc = "select",
                                              !.receiving = TRUE]]
    /\ UNCHANGED <<tasks, handle, runpc, calls, streams, plugin>>

\* the plugin's own context d.ctx: NewPlugin keeps its cancel function in
\* signalShutdown, which nothing calls
PluginCtxDone == FALSE

\* handleWait, select: case <-ctx.Done() (or <-d.ctx.Done()): return, and
\* the deferred close(ch)
WaitSelectCtx(w) ==
    /\ waiters[w].pc = "select"
    /\ waiters[w].ctxDone \/ PluginCtxDone
    /\ waiters' = [waiters EXCEPT ![w].pc = "closed"]
    /\ UNCHANGED <<tasks, handle, runpc, calls, ret, streams, ncalls, plugin>>

\* handleWait, select: case <-handle.completionCh
\* (a completion signal that is a single token: the waiter that takes it
\* leaves none for the others)
WaitSelectCompletionM(w) ==
    /\ waiters[w].pc = "select"
    /\ handle[waiters[w].h].completionCh = "closed"
    /\ waiters' = [waiters EXCEPT ![w].pc = "send"]
    /\ handle' = [handle EXCEPT ![waiters[w].h].completionCh = "open"]
    /\ UNCHANGED <<tasks, runpc, calls, ret, streams, ncalls, plugin>>
WaitSelectCompletion(w) ==
    /\ waiters[w].pc = "select"
    /\ handle[waiters[w].h].completionCh = "closed"
    /\ waiters' = [waiters EXCEPT ![w].pc = "send"]
    /\ UNCHANGED <<tasks, handle, runpc, calls, ret, streams, ncalls, plugin>>

\* handleWait: ch <- handle.exitResult, on an unbuffered channel: the send
\* and the caller's receive are one step; then the loop selects again
WaitSend(w) ==
    /\ waiters[w].pc = "send"
    /\ waiters[w].receiving
    /\ waiters' = [waiters EXCEPT ![w].pc = "select",
                                  ![w].got = Min(@ + 1, 2),
                                  ![w].val = handle[waiters[w].h].exitResult]
    /\ UNCHANGED <<tasks, handle, runpc, calls, ret, streams, ncalls, plugin>>

\* the caller of WaitTask cancels the context it passed
WaitCancel(w) ==
    /\ waiters[w].pc \in {"select", "send"}
    /\ ~waiters[w].ctxDone
    /\ waiters' = [waiters EXCEPT ![w].ctxDone = TRUE]
    /\ UNCHANGED <<tasks, handle, runpc, calls, ret, streams, ncalls, plugin>>

\* the caller of WaitTask stops receiving from the channel
WaitAbandon(w) ==
    /\ waiters[w].pc \in {"select", "send"}
    /\ waiters[w].receiving
    /\ waiters' = [waiters EXCEPT ![w].receiving = FALSE]
    /\ UNCHANGED <<tasks, handle, runpc, calls, ret, streams, ncalls, plugin>>

\* ---------------------------------------------------------- TaskStats
\* lookup; ch := make(chan ...); go d.handleTaskStats(ctx, interval, ch)
TaskStats(c, id) ==
    /\ Free(c)
    /\ ncalls' = ncalls + 1
    /\ Get(id) # NoHandle => FreeStream # {}
    /\ ret' = Returned("TaskStats", IF Get(id) = NoHandle THEN "ErrTaskNotFound" ELSE "ok")
    /\ streams' = IF Get(id) = NoHandle THEN streams
                  ELSE LET s == CHOOSE x \in FreeStream : \A y \in FreeStream : x <= y
                       IN [streams EXCEPT ![s] =
                             [NoStream EXCEPT !.h = Get(id), !.pc = "select",
                                              !.receiving = TRUE]]
    /\ UNCHANGED <<tasks, handle, runpc, calls, waiters, plugin>>

\* handleTaskStats, select: case <-ctx.Done() (or <-d.ctx.Done()): return
StatsSelectCtx(s) ==
    /\ streams[s].pc = "select"
    /\ streams[s].ctxDone \/ PluginCtxDone
    /\ streams' = [streams EXCEPT ![s].pc = "closed"]
    /\ UNCHANGED <<tasks, handle, runpc, calls, ret, waiters, ncalls, plugin>>

\* handleTaskStats, select: case <-ticker.C
StatsTick(s) ==
    /\ streams[s].pc = "select"
    /\ streams' = [streams EXCEPT ![s].pc = "send"]
    /\ UNCHANGED <<tasks, handle, runpc, calls, ret, waiters, ncalls, plugin>>

\* handleTaskStats: ch <- &drivers.TaskResourceUsage{...}
StatsSend(s) ==
    /\ streams[s].pc = "send"
    /\ streams[s].receiving
    /\ streams' = [streams EXCEPT ![s].pc = "select",
                                  ![s].got = Min(@ + 1, 2)]
    /\ UNCHANGED <<tasks, handle, runpc, calls, ret, waiters, ncalls, plugin>>

\* the caller of TaskStats cancels the context it passed
StatsCancel(s) ==
    /\ streams[s].pc \in {"select", "send"}
    /\ ~streams[s].ctxDone
    /\ streams' = [streams EXCEPT ![s].ctxDone = TRUE]
    /\ UNCHANGED <<tasks, handle, runpc, calls, ret, waiters, ncalls, plugin>>

\* the caller of TaskStats stops receiving from the channel
StatsAbandon(s) ==
    /\ streams[s].pc \in {"select", "send"}
    /\ streams[s].receiving
    /\ streams' = [streams EXCEPT ![s].receiving = FALSE]
    /\ UNCHANGED <<tasks, handle, runpc, calls, ret, waiters, ncalls, plugin>>

\* ------------------------------------------------------ specifications
Run(h) == RunBegin(h) \/ RunReturn(h) \/ RunFault(h) \/ RunInterrupt(h)

StartStep(c) ==
    \/ \E id \in TaskIds, ok \in BOOLEAN : StartCheck(c, id, ok)
    \/ StartSet(c)
    \/ StartGo(c)

StopStep(c) == (\E id \in TaskIds : StopGet(c, id)) \/ StopStop(c)

DestroyStep(c) ==
    \/ \E id \in TaskIds, force \in BOOLEAN : DestroyGet(c, id, force)
    \/ DestroyCheck1(c)
    \/ DestroyCheck2(c)
    \/ DestroyStop(c)
    \/ DestroyDelete(c)

InspectStep(c) == (\E id \in TaskIds : InspectGet(c, id)) \/ InspectStatus(c)

WaitStep(w) ==
    WaitSelectCtx(w) \/ WaitSelectCompletion(w) \/ WaitSend(w)

WaitCaller(w) == WaitCancel(w) \/ WaitAbandon(w)

StatsStep(s) == StatsSelectCtx(s) \/ StatsTick(s) \/ StatsSend(s)

StatsCaller(s) == StatsCancel(s) \/ StatsAbandon(s)

SignalStep(c) == \E id \in TaskIds : SignalTask(c, id)

WaitCall(c) == \E id \in TaskIds : WaitTask(c, id)

StatsCall(c) == \E id \in TaskIds : TaskStats(c, id)

\* the lifecycle of tasks: they are started, stopped and destroyed, and run
Next ==
    \/ \E c \in Callers : StartStep(c) \/ StopStep(c) \/ DestroyStep(c)
    \/ \E h \in Handles : Run(h)

Spec == Init /\ [][Next]_vars

\* tasks are started and stopped, and run
StopNext ==
    \/ \E c \in Callers : StartStep(c) \/ StopStep(c)
    \/ \E h \in Handles : Run(h)

StopSpec == Init /\ [][StopNext]_vars

\* the goroutines are scheduled: a handler that has begun goes on, and a
\* task's goroutine that can take a step takes it
FairStopSpec ==
    /\ StopSpec
    /\ \A h \in Handles : WF_vars(Run(h))
    /\ \A c \in Callers : WF_vars(StartSet(c) \/ StartGo(c) \/ StopStop(c))

\* tasks are started and destroyed, and run
DestroyNext ==
    \/ \E c \in Callers : StartStep(c) \/ DestroyStep(c)
    \/ \E h \in Handles : Run(h)

DestroySpec == Init /\ [][DestroyNext]_vars

\* tasks are started, stopped and waited for, and run
WaitNext ==
    \/ \E c \in Callers : StartStep(c) \/ StopStep(c) \/ WaitCall(c)
    \/ \E h \in Handles : Run(h)
    \/ \E w \in Waiters : WaitStep(w) \/ WaitCaller(w)

WaitSpec == Init /\ [][WaitNext]_vars

\* a handleWait goroutine that can take a step takes it; a select that keeps
\* finding the context done and the completion signal ready takes each
\* case in the end (Go picks among the ready cases at random); a caller
\* that is receiving takes what is sent
FairWaitSpec ==
    /\ WaitSpec
    /\ \A h \in Handles : WF_vars(Run(h))
    /\ \A c \in Callers : WF_vars(StartSet(c) \/ StartGo(c) \/ StopStop(c))
    /\ \A w \in Waiters : /\ SF_vars(WaitSelectCtx(w))
                          /\ WF_vars(WaitSelectCompletion(w))
                          /\ WF_vars(WaitSend(w))

\* tasks are started and waited for by callers that keep their contexts and
\* keep receiving; nobody stops a task, so no call is interrupted
JoinNext ==
    \/ \E c \in Callers : StartStep(c) \/ WaitCall(c)
    \/ \E h \in Handles : RunBegin(h) \/ RunReturn(h) \/ RunFault(h)
    \/ \E w \in Waiters : WaitSelectCompletion(w) \/ WaitSend(w)

JoinSpec == Init /\ [][JoinNext]_vars

\* the goroutines are scheduled, and a caller that is receiving takes what
\* is sent
FairJoinSpec ==
    /\ JoinSpec
    /\ \A h \in Handles : WF_vars(RunBegin(h) \/ RunReturn(h) \/ RunFault(h))
    /\ \A c \in Callers : WF_vars(StartSet(c) \/ StartGo(c))
    /\ \A w \in Waiters : /\ WF_vars(WaitSelectCompletion(w))
                          /\ WF_vars(WaitSend(w))

\* tasks with different ids are started and stopped, and run side by side
PairNext ==
    \/ \E c \in Callers :
          \/ \E id \in PairIds, ok \in BOOLEAN : StartCheck(c, id, ok)
          \/ StartSet(c)
          \/ StartGo(c)
          \/ \E id \in PairIds : StopGet(c, id)
          \/ StopStop(c)
    \/ \E h \in Handles : Run(h)

PairSpec == Init /\ [][PairNext]_vars

\* tasks are started and stopped, and run, and their statistics are streamed
StatsNext ==
    \/ \E c \in Callers : StartStep(c) \/ StopStep(c) \/ StatsCall(c)
    \/ \E h \in Handles : Run(h)
    \/ \E s \in Streams : StatsStep(s) \/ StatsCaller(s)

StatsSpec == Init /\ [][StatsNext]_vars

\* a handleTaskStats goroutine that can take a step takes it: the ticker
\* ticks, a select that keeps finding the context done takes that case in
\* the end, and a caller that is receiving takes what is sent
FairStatsSpec ==
    /\ StatsSpec
    /\ \A h \in Handles : WF_vars(Run(h))
    /\ \A c \in Callers : WF_vars(StartSet(c) \/ StartGo(c) \/ StopStop(c))
    /\ \A s \in Streams : /\ SF_vars(StatsSelectCtx(s))
                          /\ WF_vars(StatsTick(s))
                          /\ WF_vars(StatsSend(s))

\* statistics are streamed to callers that keep their contexts and keep
\* receiving, while the tasks are started and stopped, and run
StreamNext ==
    \/ \E c \in Callers : StartStep(c) \/ StopStep(c) \/ StatsCall(c)
    \/ \E h \in Handles : Run(h)
    \/ \E s \in Streams : StatsTick(s) \/ StatsSend(s)

StreamSpec == Init /\ [][StreamNext]_vars

\* the goroutines are scheduled, the ticker ticks, and the caller takes
\* what is sent
FairStreamSpec ==
    /\ StreamSpec
    /\ \A h \in Handles : WF_vars(Run(h))
    /\ \A c \in Callers : WF_vars(StartSet(c) \/ StartGo(c) \/ StopStop(c))
    /\ \A s \in Streams : WF_vars(StatsTick(s)) /\ WF_vars(StatsSend(s))

\* the plugin is configured: SetConfig on any payload, and the warm-up of
\* the module cache
ConfigNext ==
    \/ plugin.pc = "new"
        /\ \E payload \in Payloads, cfg \in Configs : SetConfig(payload, cfg)
    \/ PreCacheLoad
    \/ PreCacheReturn

ConfigSpec == Init /\ [][ConfigNext]_vars

\* every RPC of the task API, on registered and on unknown ids; the callers
\* of WaitTask and TaskStats keep their contexts and keep receiving
ApiNext ==
    \/ \E c \in Callers : StartStep(c) \/ StopStep(c) \/ DestroyStep(c)
                          \/ InspectStep(c) \/ SignalStep(c)
                          \/ WaitCall(c) \/ StatsCall(c)
    \/ \E h \in Handles : Run(h)
    \/ \E w \in Waiters : WaitSelectCompletion(w) \/ WaitSend(w)
    \/ \E s \in Streams : StatsTick(s) \/ StatsSend(s)

ApiSpec == Init /\ [][ApiNext]_vars

\* ------------------------------------------------------------- claims
Allocated == {h \in Handles : handle[h].procState # "none"}

\* caller c takes a step of the RPC it is executing
Steps(c) == calls'[c] # calls[c]

\* C1: of two StartTask calls for one task id that run at the same time,
\* exactly one succeeds and the other gets the duplicate-id error: the two
\* are never both past the duplicate check, registering a handle each and
\* returning success each.
C1_OneStartWins ==
    \A c1, c2 \in Callers :
        (c1 # c2 /\ calls[c1].op = "StartTask" /\ calls[c2].op = "StartTask"
            /\ calls[c1].id = calls[c2].id)
        => ~(calls[c1].pc = "go" /\ calls[c2].pc = "go")

\* C2: the channel of WaitTask delivers the task's exit result exactly once:
\* nothing before the completion signal has fired, the exit result of the
\* task when it does, and never a second result.
C2_OneResult ==
    \A w \in Waiters :
        /\ waiters[w].got <= 1
        /\ waiters[w].got >= 1 =>
             /\ handle[waiters[w].h].completionCh = "closed"
             /\ waiters[w].val = handle[waiters[w].h].exitResult

\* C3: once the context passed to WaitTask is cancelled, the handleWait
\* goroutine ends and closes its channel, whether or not the task has
\* completed and whether or not the caller is still receiving.
C3_CancelledWaitEnds ==
    \A w \in Waiters : waiters[w].ctxDone ~> (waiters[w].pc = "closed")

\* C4: when a stop request races with the natural end of the call, the
\* completion signal fires exactly once: a task is Exited exactly when its
\* signal has fired once, and nothing changes a task that is Exited (the
\* one that comes second observes Exited and changes nothing).
C4_SignalOnce ==
    [][\A h \in Handles :
          /\ handle'[h].signals <= 1
          /\ handle'[h].procState = "exited" <=>
               (handle'[h].signals = 1 /\ handle'[h].completionCh = "closed"
                /\ handle'[h].exitResult # "nil")
          /\ handle[h].procState = "exited" => handle'[h] = handle[h]]_vars

\* a stop was requested on a task whose call then came to its natural end,
\* and a stop was requested on a task that had already exited
C4_Witness ==
    \E h \in Handles :
        /\ handle[h].procState = "exited"
        /\ handle[h].exitResult = "Completed"
        /\ handle[h].epoch >= 1
        /\ handle[h].signals = 1

\* C5: a Running task whose entry function loops forever, once StopTask has
\* been called on it, reaches Exited with cause Stopped and its completion
\* signal fires; one tick of the epoch is enough for the call to be due to
\* trap.
C5_StopEndsLoop ==
    /\ \A h \in Handles :
         (handle[h].kind = "loops" /\ handle[h].epoch >= 1)
           ~> (handle[h].procState = "exited"
               /\ handle[h].exitResult = "Stopped"
               /\ handle[h].completionCh = "closed")
    /\ [](\A h \in Handles : handle[h].epoch >= 1 => Interrupted(handle[h]))

C5_Witness ==
    \E h \in Handles :
        /\ handle[h].kind = "loops"
        /\ handle[h].procState = "exited"
        /\ handle[h].exitResult = "Stopped"
        /\ handle[h].epoch = 1

\* C6: StopTask on a task that is already Exited returns success and changes
\* neither the task (state, exit result, completion signal) nor the
\* registry.
C6_StopExitedNoOp ==
    [][\A c \in Callers :
          /\ (\E id \in TaskIds : StopGet(c, id)) =>
               UNCHANGED <<tasks, handle, runpc>>
          /\ (calls[c].op = "StopTask" /\ calls[c].pc = "stop"
              /\ handle[calls[c].h].procState = "exited" /\ Steps(c)) =>
               /\ ret' = Returned("StopTask", "ok")
               /\ calls'[c] = IdleCall
               /\ UNCHANGED <<tasks, handle, runpc>>]_vars

\* StopTask has returned success and no task has had its epoch advanced: the
\* stop was called on a task that had exited
C6_Witness ==
    /\ ret = Returned("StopTask", "ok")
    /\ Allocated # {}
    /\ \A h \in Allocated :
         /\ handle[h].procState = "exited" /\ handle[h].epoch = 0
         /\ tasks[handle[h].id] = h

\* C7: DestroyTask without force on a task that is Running returns an error
\* and changes nothing: the registry, the task's state and its epoch (no stop
\* is requested) stay as they are.
C7_DestroyRunningRejected ==
    [][\A c \in Callers :
          (calls[c].op = "DestroyTask" /\ calls[c].pc = "check1"
           /\ ~calls[c].force /\ IsRunning(handle[calls[c].h]) /\ Steps(c)) =>
               /\ ret' = Returned("DestroyTask", "ErrRunning")
               /\ calls'[c] = IdleCall
               /\ UNCHANGED <<tasks, handle, runpc>>]_vars

C7_Witness ==
    /\ ret = Returned("DestroyTask", "ErrRunning")
    /\ \E id \in TaskIds :
         /\ tasks[id] # NoHandle
         /\ handle[tasks[id]].procState = "running"
         /\ handle[tasks[id]].epoch = 0

\* C8: DestroyTask removes a task from the registry only if, at the moment
\* of removal, the task is Exited or this same call has requested a stop on
\* it.
C8_RemoveOnlyStopped ==
    [][\A c \in Callers :
          (calls[c].op = "DestroyTask" /\ calls[c].pc = "delete" /\ Steps(c)
           /\ tasks[calls[c].id] # NoHandle) =>
               \/ handle[tasks[calls[c].id]].procState = "exited"
               \/ calls[c].stopped /\ calls[c].h = tasks[calls[c].id]]_vars

\* C9: on a task id that is not in the registry, WaitTask, StopTask,
\* DestroyTask, InspectTask, TaskStats and SignalTask each return the
\* not-found error at once: the caller is not left in the call, no goroutine
\* is spawned, and the registry and the tasks are unchanged.
C9_UnknownIdNotFound ==
    [][\A c \in Callers, id \in TaskIds :
          (Get(id) = NoHandle
           /\ (\/ WaitTask(c, id) \/ StopGet(c, id)
               \/ \E force \in BOOLEAN : DestroyGet(c, id, force)
               \/ InspectGet(c, id) \/ TaskStats(c, id) \/ SignalTask(c, id))) =>
               /\ ret'.res = "ErrTaskNotFound"
               /\ UNCHANGED <<tasks, handle, runpc, calls, waiters, streams>>]_vars

\* an RPC (here WaitTask) has answered not-found on an id that had been
\* started and destroyed before, the registry being empty again
C9_Witness ==
    /\ ret = Returned("WaitTask", "ErrTaskNotFound")
    /\ \A id \in TaskIds : tasks[id] = NoHandle
    /\ Allocated # {}

\* C10: StartTask with an id that is in the registry, whatever the state of
\* the registered task, returns the duplicate-task error, leaves the
\* registry and the registered task as they are and spawns nothing: no
\* StartTask call gets past the duplicate check on a registered id.
C10_DuplicateStartRejected ==
    [][\A c \in Callers :
          /\ \A id \in TaskIds, ok \in BOOLEAN :
               (Get(id) # NoHandle /\ StartCheck(c, id, ok)) =>
                  /\ ret' = Returned("StartTask", "ErrAlreadyStarted")
                  /\ UNCHANGED <<tasks, handle, runpc, calls>>
          /\ (calls[c].pc = "idle" /\ calls'[c].op = "StartTask") =>
               tasks[calls'[c].id] = NoHandle]_vars

C10_Witness ==
    /\ ret = Returned("StartTask", "ErrAlreadyStarted")
    /\ \E id \in TaskIds :
         /\ tasks[id] # NoHandle
         /\ handle[tasks[id]].procState = "exited"
         /\ Cardinality(Allocated) = 1

\* C11: when several WaitTask calls are outstanding on a task that completes,
\* every one of them is released: each waiter whose caller keeps its context
\* and keeps receiving gets a result, whatever the other waiters have
\* taken; and all of them get the same result, the task's exit result.
C11_AllWaitersReleased ==
    /\ \A w \in Waiters :
         (waiters[w].pc # "free"
          /\ handle[waiters[w].h].completionCh = "closed")
           ~> (waiters[w].got >= 1 \/ waiters[w].ctxDone
               \/ ~waiters[w].receiving)
    /\ [](\A w1, w2 \in Waiters :
            (waiters[w1].got >= 1 /\ waiters[w2].got >= 1
             /\ waiters[w1].h = waiters[w2].h) =>
                /\ waiters[w1].val = waiters[w2].val
                /\ waiters[w1].val = handle[waiters[w1].h].exitResult)

\* two waiters on one task have both received its exit result
C11_Witness ==
    \E w1, w2 \in Waiters :
        /\ w1 # w2
        /\ waiters[w1].h = waiters[w2].h
        /\ waiters[w1].got >= 1 /\ waiters[w2].got >= 1
        /\ waiters[w1].val # "nil"

\* C12: a task that StartTask has registered is Starting until its goroutine
\* begins the engine call: InspectTask on a task whose goroutine has not
\* begun the call reports Starting, not Running.
C12_NewTaskStarting ==
    [][\A c \in Callers :
          (calls[c].op = "InspectTask" /\ calls[c].pc = "status" /\ Steps(c)
           /\ runpc[calls[c].h] \in {"none", "spawned"}) =>
               ret' = Returned("InspectTask", "starting")]_vars

\* C13: Exited is terminal under every interleaving of the RPCs: a task
\* makes the transition into Exited at most once, and the state and the exit
\* result of a task that is Exited never change.
C13_ExitedTerminal ==
    [][\A h \in Handles :
          /\ handle'[h].signals <= 1
          /\ handle[h].procState = "exited" =>
               /\ handle'[h].procState = "exited"
               /\ handle'[h].exitResult = handle[h].exitResult]_vars

\* a task has exited, a waiter has received its result, and InspectTask
\* called after that has reported Exited
C13_Witness ==
    /\ ret = Returned("InspectTask", "exited")
    /\ \E w \in Waiters :
         /\ waiters[w].got >= 1
         /\ handle[waiters[w].h].procState = "exited"
         /\ handle[waiters[w].h].exitResult = waiters[w].val

\* SetConfig has got as far as the warm-up: the payload decoded, the
\* configuration is valid and the cache and its pre-cache are enabled
WarmUpReached ==
    /\ plugin.pc # "new"
    /\ plugin.config.size > 0
    /\ plugin.config.expEnabled => plugin.config.entryTTL > 0
    /\ plugin.config.enabled
    /\ plugin.config.type \in CacheTypes
    /\ plugin.config.preEnabled

\* C15: when pre-cache is enabled and more *.wasm files are found under
\* modulesDir than the cache has room for, SetConfig returns an error that
\* names the cache size and the number found, and no module has been loaded
\* or put into the cache.
C15_TooManyModulesRejected ==
    (WarmUpReached /\ plugin.config.dir.root = "ok"
     /\ Len(ModulesPath(plugin.config.dir)) > plugin.config.size) =>
        /\ plugin.pc = "returned"
        /\ plugin.err = [Err("ErrPreCacheCount") EXCEPT
                           !.size = plugin.config.size,
                           !.count = Len(ModulesPath(plugin.config.dir))]
        /\ plugin.loaded = {}
        /\ plugin.cache = {}

C15_Witness ==
    /\ plugin.pc = "returned"
    /\ plugin.err.kind = "ErrPreCacheCount"
    /\ plugin.err.size >= 1
    /\ plugin.err.count > plugin.err.size

C17_OnlyValidConfigAccepted ==
    (plugin.pc = "returned" /\ plugin.err.kind = "nil") =>
        /\ plugin.config.size > 0
        /\ plugin.config.expEnabled => plugin.config.entryTTL > 0
        /\ plugin.config.type \in CacheTypes

\* C18: when pre-cache is enabled and modulesDir is missing (the scan meets
\* an error at the root), SetConfig returns a configuration error: it does
\* not crash, and it does not succeed with an empty warm-up.
C18_MissingDirRejected ==
    (WarmUpReached /\ plugin.config.dir.root \in {"missing", "unreadable"}) =>
        /\ plugin.pc = "returned"
        /\ plugin.err.kind = "ErrModulesDir"

\* C19: the TaskStats stream of a registered task sends a sample per tick
\* until the caller's context is cancelled; once the context is cancelled
\* the handleTaskStats goroutine ends and closes its channel, also when the
\* caller has stopped receiving.
C19_CancelledStatsEnds ==
    \A s \in Streams : streams[s].ctxDone ~> (streams[s].pc = "closed")

\* C20: a stop, a fault or a completion of one task touches only that task:
\* the step in which StopTask requests the stop of A, and the step in which
\* A's call returns, faults or is interrupted, leave every other task as
\* it is (state, exit result, epoch, position of its call) and leave the
\* registry as it is.
C20_TasksIsolated ==
    [][/\ \A c \in Callers :
            StopStop(c) =>
               /\ \A g \in Handles \ {calls[c].h} :
                     handle'[g] = handle[g] /\ runpc'[g] = runpc[g]
               /\ tasks' = tasks
       /\ \A h \in Handles :
            (RunReturn(h) \/ RunFault(h) \/ RunInterrupt(h)) =>
               /\ \A g \in Handles \ {h} :
                     handle'[g] = handle[g] /\ runpc'[g] = runpc[g]
               /\ tasks' = tasks]_vars

\* two tasks are registered; one has been stopped and has exited, the call
\* of the other is in flight, not interrupted
C20_Witness ==
    \E a, b \in PairIds :
        /\ a # b
        /\ tasks[a] # NoHandle /\ tasks[b] # NoHandle
        /\ handle[tasks[a]].exitResult = "Stopped"
        /\ handle[tasks[b]].procState = "running"
        /\ runpc[tasks[b]] = "calling"
        /\ handle[tasks[b]].epoch = 0

\* C21: the TaskStats stream of a task stops once the task has stopped
\* running: after the task has reached Exited, the handleTaskStats goroutine
\* ends and closes its channel, even if the caller's context is never
\* cancelled.
C21_StatsEndWithTask ==
    \A s \in Streams :
        (streams[s].pc # "free" /\ handle[streams[s].h].procState = "exited")
          ~> (streams[s].pc = "closed")

\* C22: a SetConfig call that returns an error leaves the plugin as it was
\* before the call, whatever the cause of the error: the stored
\* configuration is the one it had, and the module cache has neither been
\* made nor filled.
C22_FailedSetConfigNoChange ==
    (plugin.pc = "returned" /\ plugin.err.kind # "nil") =>
        /\ plugin.config = NewPlugin.config
        /\ plugin.built = NewPlugin.built
        /\ plugin.cache = NewPlugin.cache

\* C23: no task execution is orphaned: every task whose goroutine has been
\* spawned and that is not Exited is the task registered under its id, or
\* a stop has been requested on it.
C23_NoOrphan ==
    \A h \in Handles :
        (runpc[h] \in {"spawned", "calling"} /\ handle[h].procState # "exited") =>
            \/ tasks[handle[h].id] = h
            \/ handle[h].epoch >= 1

====
